---- MODULE Spec2Model ----
(***************************************************************************)
(* A model of the EnjoyDailyLife conversion pipeline (convert_to_hls.py)   *)
(* and of its playlist parser (fetch_m3u_urls, shared with                 *)
(* VOD-generate_m3u.py).                                                   *)
(*                                                                         *)
(* Pipeline part: one process at a time runs main(); its worker threads    *)
(* (process_video in the ThreadPoolExecutor) interleave at the granularity *)
(* of the statements that touch shared state: the list master_m3u_content, *)
(* the file master.m3u, the output folders and the transient file.  The    *)
(* external collaborators (HEAD request, downloader, ffmpeg, the write of  *)
(* the per-asset fragment) return a nondeterministic outcome.  The disk    *)
(* (ledger file, master.m3u, manifests) survives a crash; memory does not. *)
(***************************************************************************)
EXTENDS Integers, Sequences, FiniteSets, TLC

\* ------------------------------------------------------------------ bounds
\* Number of invocations of main() in a behaviour.
MaxRuns == 2
\* Longest entry list a source document parses to.
MaxEntries == 2
\* Longest playlist text, in lines, given to fetch_m3u_urls on its own.
MaxLines == 4

\* ------------------------------------------------------- program constants
\* len(SOURCES)
NumSources == 2
\* MAX_VIDEOS_PER_SOURCE
MAX_VIDEOS_PER_SOURCE == 50
\* MAX_WORKERS
MAX_WORKERS == 4

\* The video URLs the sources may list; both end in ".mp4".
URLS == {"a.mp4", "b.mp4"}

VARIABLES
    \* ---- disk
    ledgerFile,   \* converted_videos.json: sequence of records, in key order
    masterFile,   \* master.m3u: sequence of lines (<<>> = absent or truncated)
    manifests,    \* output folders <<source, video_id>> holding playlist.m3u8
    tempFiles,    \* transient files of the running process, by path
    \* ---- memory of the running process
    pc,                 \* position of main()
    converted_videos,   \* main's dict, as a sequence of records in key order
    master_m3u_content, \* main's list of lines
    video_id_counter,
    new_videos,         \* sequence of result records
    src,                \* source_idx + 1 of the for loop
    workers,            \* the futures of the current pool, in submit order
    \* ---- bookkeeping
    runs,               \* invocations of main() so far
    log,                \* what this run wrote to conversion.log, as a set
    terminalAtStart,    \* history: URLs terminal-success when the run began
    \* ---- fetch_m3u_urls on its own
    m3u_url,            \* the source, as its index in SOURCES
    lines,              \* content.splitlines()
    urls,               \* the list fetch_m3u_urls returns
    parse_pc,           \* "input", or which of the two copies has returned
    \* ---- clean_cache of stream_server.py on its own
    cacheDirs,          \* directories below OUTPUT_DIR: [path, mtime, mb]
    cacheAtStart,       \* history: cacheDirs when clean_cache was called
    cache_pc,           \* "input", "cleaned" or "error" (exception logged)
    \* ---- stream() of stream_server.py
    metadata,           \* keys of video_metadata.json
    cached,             \* asset ids whose playlist.m3u8 is on disk
    request_id,         \* video_id of the request being served
    serve_pc,           \* "request" or "done"
    response,           \* "none", "manifest", "404" or "500"
    steps,              \* external operations the request performed, in order
    env,                \* what the downloader and ffmpeg answer when called
    \* ---- main's filter on its own
    doc_urls,           \* the entries a source document parses to
    doc_ledger,         \* converted_videos, every manifest on disk
    doc_new_urls,       \* new_urls
    filter_pc           \* "input" or "filtered"

pipelineVars ==
    <<ledgerFile, masterFile, manifests, tempFiles, pc, converted_videos,
      master_m3u_content, video_id_counter, new_videos, src, workers, runs,
      log, terminalAtStart>>

parserVars == <<m3u_url, lines, urls, parse_pc>>

cacheVars == <<cacheDirs, cacheAtStart, cache_pc>>

serveVars ==
    <<metadata, cached, request_id, serve_pc, response, steps, env>>

filterVars == <<doc_urls, doc_ledger, doc_new_urls, filter_pc>>

vars == <<pipelineVars, parserVars, cacheVars, serveVars, filterVars>>

\* What the steps of one program leave alone: the state of the others.
outsidePipeline == <<parserVars, cacheVars, serveVars, filterVars>>

outsideParser == <<pipelineVars, cacheVars, serveVars, filterVars>>

outsideCache == <<pipelineVars, parserVars, serveVars, filterVars>>

outsideServe == <<pipelineVars, parserVars, cacheVars, filterVars>>

outsideFilter == <<pipelineVars, parserVars, cacheVars, serveVars>>

hist == <<log, terminalAtStart>>

disk == <<ledgerFile, masterFile, manifests>>

\* ----------------------------------------------------------------- helpers
Min(a, b) == IF a < b THEN a ELSE b

\* s[:n]
Take(s, n) == SubSeq(s, 1, Min(n, Len(s)))

Range(s) == {s[i] : i \in 1..Len(s)}

\* All sequences over S of length at most n.
SeqsUpTo(S, n) == UNION {[1..k -> S] : k \in 0..n}

\* What a source document can parse to: its entries' URLs in document order.
\* A URL identifies an entry within its document (section 3 of the
\* specification), so a document lists a URL once; two documents may list
\* the same URL.
ParsedDocuments ==
    {e \in SeqsUpTo(URLS, MaxEntries) : Cardinality(Range(e)) = Len(e)}

\* ------------------------------------------------------------ the playlist
HeaderLine == <<"hdr", "", 0, 0>>

\* f"#EXTINF:-1 tvg-logo=\"{logo}\" group-title=\"{group}\",{title}": the
\* entry's title, logo and group are those of its URL, so the line is
\* identified by the URL.
InfLine(url) == <<"inf", url, 0, 0>>

\* github_m3u8_url: BASE_GITHUB_URL + the manifest's path relative to
\* OUTPUT_DIR, that is source_<s>/video_<id>/playlist.m3u8.
GithubUrl(m3u8_file) == <<"url", "", m3u8_file[1], m3u8_file[2]>>

\* os.path.join(OUTPUT_DIR, source_name, f"video_{video_id}", "playlist.m3u8")
OutputManifest(source, video_id) == <<source, video_id>>

\* ------------------------------------------------------------- the ledger
HasKey(cv, url) == \E i \in 1..Len(cv) : cv[i].url = url

Info(cv, url) == cv[CHOOSE i \in 1..Len(cv) : cv[i].url = url]

\* info.get("m3u8_file") and os.path.exists(info["m3u8_file"])
IsConverted(cv, url, onDisk) ==
    HasKey(cv, url) /\ Info(cv, url).m3u8_file \in onDisk

\* converted_videos[url] = record: an existing key keeps its position.
DictSet(cv, rec) ==
    IF HasKey(cv, rec.url)
    THEN [i \in 1..Len(cv) |-> IF cv[i].url = rec.url THEN rec ELSE cv[i]]
    ELSE Append(cv, rec)

\* Section 3 of the specification: a record whose outputLocation references
\* an existing manifest is terminal-success.
TerminalSuccess(ledger, url, onDisk) ==
    \E i \in 1..Len(ledger) : ledger[i].url = url /\ ledger[i].m3u8_file \in onDisk

\* load_converted_videos: a missing, empty or unparsable file gives {}.
load_converted_videos == ledgerFile

\* ------------------------------------------------------------------- Init
\* What a process that is not running holds in memory.
NoMemory ==
    /\ converted_videos' = <<>>
    /\ master_m3u_content' = <<>>
    /\ video_id_counter' = 0
    /\ new_videos' = <<>>
    /\ src' = 0
    /\ workers' = <<>>
    /\ tempFiles' = {}
    /\ log' = {}
    /\ terminalAtStart' = {}

PipelineInit ==
    /\ ledgerFile = <<>>
    /\ masterFile = <<>>
    /\ manifests = {}
    /\ tempFiles = {}
    /\ pc = "idle"
    /\ converted_videos = <<>>
    /\ master_m3u_content = <<>>
    /\ video_id_counter = 0
    /\ new_videos = <<>>
    /\ src = 0
    /\ workers = <<>>
    /\ runs = 0
    /\ log = {}
    /\ terminalAtStart = {}

\* No playlist text is being parsed on its own.
ParserIdle ==
    /\ m3u_url = 1
    /\ lines = <<>>
    /\ urls = <<>>
    /\ parse_pc = "input"

\* clean_cache is not running on its own.
CacheIdle ==
    /\ cacheDirs = {}
    /\ cacheAtStart = {}
    /\ cache_pc = "idle"

\* No request is being served.
ServeIdle ==
    /\ metadata = {}
    /\ cached = {}
    /\ request_id = "v1"
    /\ serve_pc = "idle"
    /\ response = "none"
    /\ steps = <<>>
    /\ env = [download |-> TRUE, transcode |-> TRUE]

\* The filter is not running on its own.
FilterIdle ==
    /\ doc_urls = <<>>
    /\ doc_ledger = <<>>
    /\ doc_new_urls = <<>>
    /\ filter_pc = "idle"

Init == PipelineInit /\ ParserIdle /\ CacheIdle /\ ServeIdle /\ FilterIdle

\* ------------------------------------------------------ main(): start-up
\* The "Include existing videos" loop: one item per ledger record that has
\* its manifest on disk or, failing that, a github_m3u8_url (every record
\* written by main has one).
RECURSIVE ExistingItems(_)
ExistingItems(cv) ==
    IF cv = <<>> THEN <<>>
    ELSE <<InfLine(Head(cv).url), Head(cv).github_m3u8_url>>
         \o ExistingItems(Tail(cv))

\* main() up to the open() of its first write_partial_master_m3u: loads the
\* ledger, rebuilds the list from it, and opens master.m3u for writing,
\* which truncates it.
StartRun ==
    /\ pc = "idle"
    /\ runs < MaxRuns
    /\ runs' = runs + 1
    /\ converted_videos' = load_converted_videos
    /\ master_m3u_content' = <<HeaderLine>> \o ExistingItems(load_converted_videos)
    /\ masterFile' = <<>>
    /\ pc' = "init_write"
    /\ log' = {}
    /\ terminalAtStart' = {u \in URLS : TerminalSuccess(ledgerFile, u, manifests)}
    /\ UNCHANGED <<ledgerFile, manifests, tempFiles, video_id_counter,
                   new_videos, src, workers>>
    /\ UNCHANGED outsidePipeline

\* f.write("\n".join(master_m3u_content)) and close, then lines 259-261.
InitWrite ==
    /\ pc = "init_write"
    /\ masterFile' = master_m3u_content
    /\ video_id_counter' = 0
    /\ new_videos' = <<>>
    /\ src' = 1
    /\ pc' = "fetch"
    /\ UNCHANGED <<ledgerFile, manifests, tempFiles, converted_videos,
                   master_m3u_content, workers, runs, hist>>
    /\ UNCHANGED outsidePipeline

\* ------------------------------------------------- main(): one source
\* A filter that lets converted URLs through (mutation of FilterNew).
FilterNew_KeepAll(video_urls, cv, onDisk) == video_urls

\* The "Filter URLs" loop: keeps, in order, the entries whose URL is not
\* converted with its manifest on disk.
RECURSIVE FilterNew(_, _, _)
FilterNew(video_urls, cv, onDisk) ==
    IF video_urls = <<>> THEN <<>>
    ELSE IF IsConverted(cv, Head(video_urls), onDisk)
         THEN FilterNew(Tail(video_urls), cv, onDisk)
         ELSE <<Head(video_urls)>> \o FilterNew(Tail(video_urls), cv, onDisk)

\* new_urls of one source whose document parses to `entries`:
\* fetch_m3u_urls returns urls[:MAX_VIDEOS_PER_SOURCE]; main filters that
\* and cuts again.
NewUrls(entries, cv, onDisk) ==
    Take(FilterNew(Take(entries, MAX_VIDEOS_PER_SOURCE), cv, onDisk),
         MAX_VIDEOS_PER_SOURCE)

\* executor.submit(process_video, url, ..., video_id_counter, ...): the
\* counter is passed by value at submit time.
Submit(url, counter) ==
    [url |-> url, counter |-> counter, video_id |-> 0, pc |-> "queued",
     res |-> "pending", merged |-> FALSE]

\* Top of the for loop: fetch and parse the source, filter, submit every
\* new URL to a fresh pool.
FetchSource ==
    /\ pc = "fetch"
    /\ \E entries \in ParsedDocuments :
         LET video_urls == Take(entries, MAX_VIDEOS_PER_SOURCE)
             new_urls == NewUrls(entries, converted_videos, manifests)
         IN /\ workers' = [i \in 1..Len(new_urls) |->
                              Submit(new_urls[i], video_id_counter)]
            \* logging.info(f"Skipping successfully converted: {url}")
            /\ log' = log \cup
                 {<<"skipped", u>> : u \in
                    {v \in Range(video_urls) :
                       IsConverted(converted_videos, v, manifests)}}
    /\ pc' = "pool"
    /\ UNCHANGED <<disk, tempFiles, converted_videos, master_m3u_content,
                   video_id_counter, new_videos, src, runs, terminalAtStart>>
    /\ UNCHANGED outsidePipeline

\* ------------------------------------------------ process_video (worker)
\* Workers run while main is in its as_completed loop, and also while main
\* leaves the with block on an exception (shutdown waits for them).
PoolActive == pc \in {"pool", "aborting"}

InFlight(w) == workers[w].pc \notin {"queued", "done"}

\* video_id = len(converted_videos) + video_id_counter + 1
VideoId(cv, counter) == Len(cv) + counter + 1

\* temp_file = f"temp_{source_idx}_{int(time.time())}.{ext}": the workers of
\* one pool start within the same second and every URL of URLS ends in
\* ".mp4", so the path is decided by the source index.
TempFile(source) == <<"temp", source>>

\* The finally clause of process_video, then the return: the transient file
\* is removed if a file of that path exists.
Return(w, res) ==
    /\ tempFiles' = tempFiles \ {TempFile(src)}
    /\ workers' = [workers EXCEPT ![w].pc = "done", ![w].res = res]

\* A pool thread picks the work item up and runs process_video up to the
\* return of download_video: the skip test, validate_url (True, False on
\* URLError, or any other exception escaping), then download_video (True
\* when one of its retries + 1 attempts succeeds, False when all fail).
WStart(w) ==
    /\ PoolActive
    /\ workers[w].pc = "queued"
    /\ Cardinality({v \in DOMAIN workers : InFlight(v)}) < MAX_WORKERS
    /\ LET id == VideoId(converted_videos, workers[w].counter)
       IN IF IsConverted(converted_videos, workers[w].url, manifests)
          THEN \* "Skipping successfully converted video": returns before the try
               /\ UNCHANGED tempFiles
               /\ workers' = [workers EXCEPT ![w].pc = "done", ![w].res = "none",
                                             ![w].video_id = id]
          ELSE \E outcome \in {"downloaded", "unreachable", "raise",
                               "download_failed"} :
                 IF outcome = "downloaded"
                 THEN /\ tempFiles' = tempFiles \cup {TempFile(src)}
                      /\ workers' = [workers EXCEPT ![w].pc = "convert",
                                                   ![w].video_id = id]
                 ELSE /\ tempFiles' = tempFiles \ {TempFile(src)}
                      /\ workers' = [workers EXCEPT
                            ![w].pc = "done", ![w].video_id = id,
                            ![w].res = IF outcome = "raise" THEN "raised"
                                       ELSE IF outcome = "download_failed"
                                            THEN "download_failed"
                                            ELSE "none"]
    /\ UNCHANGED <<disk, pc, converted_videos, master_m3u_content,
                   video_id_counter, new_videos, src, runs, hist>>
    /\ UNCHANGED outsidePipeline

\* convert_to_hls(temp_file, output_folder), then create_permanent_m3u.
\* ffmpeg needs its input file; on success the manifest is on disk, and the
\* write of the fragment video_<id>.m3u may still fail.
WConvert(w) ==
    /\ PoolActive
    /\ workers[w].pc = "convert"
    /\ \E outcome \in {"ok", "ffmpeg_failed", "fragment_failed"} :
         CASE outcome = "ok" ->
                /\ TempFile(src) \in tempFiles
                /\ manifests' = manifests \cup {OutputManifest(src, workers[w].video_id)}
                /\ workers' = [workers EXCEPT ![w].pc = "append_inf"]
                /\ UNCHANGED tempFiles
           [] outcome = "fragment_failed" ->
                /\ TempFile(src) \in tempFiles
                /\ manifests' = manifests \cup {OutputManifest(src, workers[w].video_id)}
                /\ Return(w, "none")
           [] outcome = "ffmpeg_failed" ->
                /\ UNCHANGED manifests
                /\ Return(w, "none")
    /\ UNCHANGED <<ledgerFile, masterFile, pc, converted_videos,
                   master_m3u_content, video_id_counter, new_videos, src, runs, hist>>
    /\ UNCHANGED outsidePipeline

\* master_m3u_content.append(f"#EXTINF:...")
WAppendInf(w) ==
    /\ PoolActive
    /\ workers[w].pc = "append_inf"
    /\ master_m3u_content' = Append(master_m3u_content, InfLine(workers[w].url))
    /\ workers' = [workers EXCEPT ![w].pc = "append_url"]
    /\ UNCHANGED <<disk, tempFiles, pc, converted_videos, video_id_counter,
                   new_videos, src, runs, hist>>
    /\ UNCHANGED outsidePipeline

\* master_m3u_content.append(github_m3u8_url)
WAppendUrl(w) ==
    /\ PoolActive
    /\ workers[w].pc = "append_url"
    /\ master_m3u_content' =
         Append(master_m3u_content,
                GithubUrl(OutputManifest(src, workers[w].video_id)))
    /\ workers' = [workers EXCEPT ![w].pc = "open"]
    /\ UNCHANGED <<disk, tempFiles, pc, converted_videos, video_id_counter,
                   new_videos, src, runs, hist>>
    /\ UNCHANGED outsidePipeline

\* write_partial_master_m3u: open(FINAL_M3U, "w") truncates the file.
WOpen(w) ==
    /\ PoolActive
    /\ workers[w].pc = "open"
    /\ masterFile' = <<>>
    /\ workers' = [workers EXCEPT ![w].pc = "write"]
    /\ UNCHANGED <<ledgerFile, manifests, tempFiles, pc, converted_videos,
                   master_m3u_content, video_id_counter, new_videos, src, runs, hist>>
    /\ UNCHANGED outsidePipeline

\* write_partial_master_m3u: the join of the list as it is now is written
\* and the file closed; then process_video returns its result.
WWrite(w) ==
    /\ PoolActive
    /\ workers[w].pc = "write"
    /\ masterFile' = master_m3u_content
    /\ Return(w, "ok")
    /\ UNCHANGED <<ledgerFile, manifests, pc, converted_videos,
                   master_m3u_content, video_id_counter, new_videos, src, runs, hist>>
    /\ UNCHANGED outsidePipeline

\* The result dict of a worker that returned one.
Result(w) ==
    LET f == OutputManifest(src, workers[w].video_id)
    IN [url |-> workers[w].url, m3u8_file |-> f,
        video_id |-> workers[w].video_id, source |-> src,
        github_m3u8_url |-> GithubUrl(f)]

\* ------------------------------------------- main(): the as_completed loop
\* for future in as_completed(...): result = future.result().  A worker's
\* exception is raised again here, and main leaves the with block.
Merge(w) ==
    /\ pc = "pool"
    /\ workers[w].pc = "done"
    /\ ~workers[w].merged
    /\ workers' = [workers EXCEPT ![w].merged = TRUE]
    /\ CASE workers[w].res = "ok" ->
              /\ new_videos' = Append(new_videos, Result(w))
              /\ video_id_counter' = video_id_counter + 1
              /\ UNCHANGED pc
         [] workers[w].res \in {"none", "download_failed"} ->
              UNCHANGED <<new_videos, video_id_counter, pc>>
         [] workers[w].res = "raised" ->
              /\ pc' = "aborting"
              /\ UNCHANGED <<new_videos, video_id_counter>>
    /\ UNCHANGED <<disk, tempFiles, converted_videos, master_m3u_content,
                   src, runs, hist>>
    /\ UNCHANGED outsidePipeline

\* Every future was consumed: the with block ends and the for loop goes on
\* to the next source, or to the update of the ledger.
PoolExit ==
    /\ pc = "pool"
    /\ \A w \in DOMAIN workers : workers[w].merged
    /\ IF src < NumSources
       THEN /\ src' = src + 1
            /\ pc' = "fetch"
       ELSE /\ pc' = "update"
            /\ UNCHANGED src
    \* future_to_url stays bound until the next source rebinds it
    /\ UNCHANGED <<disk, tempFiles, converted_videos, master_m3u_content,
                   video_id_counter, new_videos, workers, runs, hist>>
    /\ UNCHANGED outsidePipeline

\* The exception of future.result() leaves the with block, whose exit waits
\* for the workers of the pool; then it leaves main() and ends the process.
AbortExit ==
    /\ pc = "aborting"
    /\ \A w \in DOMAIN workers : workers[w].pc = "done"
    /\ pc' = "idle"
    /\ NoMemory
    /\ UNCHANGED <<disk, runs>>
    /\ UNCHANGED outsidePipeline

\* ---------------------------------------------------- main(): the end
\* Ledger record of a result.
RECURSIVE UpdateAll(_, _)
UpdateAll(cv, videos) ==
    IF videos = <<>> THEN cv
    ELSE UpdateAll(DictSet(cv, Head(videos)), Tail(videos))

\* "Update converted videos", then save_converted_videos up to its open(),
\* which truncates converted_videos.json.
SaveOpen ==
    /\ pc = "update"
    /\ converted_videos' = UpdateAll(converted_videos, new_videos)
    /\ ledgerFile' = <<>>
    /\ pc' = "save_write"
    /\ UNCHANGED <<masterFile, manifests, tempFiles, master_m3u_content,
                   video_id_counter, new_videos, src, workers, runs, hist>>
    /\ UNCHANGED outsidePipeline

\* json.dump(converted_videos, f) and close.
SaveWrite ==
    /\ pc = "save_write"
    /\ ledgerFile' = converted_videos
    /\ pc' = "final_open"
    /\ UNCHANGED <<masterFile, manifests, tempFiles, converted_videos,
                   master_m3u_content, video_id_counter, new_videos, src,
                   workers, runs, hist>>
    /\ UNCHANGED outsidePipeline

\* The last write_partial_master_m3u: open() truncates master.m3u.
FinalOpen ==
    /\ pc = "final_open"
    /\ masterFile' = <<>>
    /\ pc' = "final_write"
    /\ UNCHANGED <<ledgerFile, manifests, tempFiles, converted_videos,
                   master_m3u_content, video_id_counter, new_videos, src,
                   workers, runs, hist>>
    /\ UNCHANGED outsidePipeline

\* The last write_partial_master_m3u: write and close; main() returns.
FinalWrite ==
    /\ pc = "final_write"
    /\ masterFile' = master_m3u_content
    /\ pc' = "idle"
    /\ NoMemory
    /\ UNCHANGED <<ledgerFile, manifests, runs>>
    /\ UNCHANGED outsidePipeline

\* ------------------------------------------------------- the environment
\* The process is killed (or the machine stops) at any point of a run.
Crash ==
    /\ pc # "idle"
    /\ pc' = "idle"
    /\ NoMemory
    /\ UNCHANGED <<disk, runs>>
    /\ UNCHANGED outsidePipeline

\* Between runs a manifest that a ledger record references is removed from
\* the output directory (the program reads the existence of no other one).
ManifestLost ==
    /\ pc = "idle"
    /\ \E f \in manifests :
         /\ \E i \in 1..Len(ledgerFile) : ledgerFile[i].m3u8_file = f
         /\ manifests' = manifests \ {f}
    /\ UNCHANGED <<ledgerFile, masterFile, tempFiles, pc, converted_videos,
                   master_m3u_content, video_id_counter, new_videos, src,
                   workers, runs, hist>>
    /\ UNCHANGED outsidePipeline

\* ------------------------------------------------------------------- Spec
Next ==
    \/ StartRun
    \/ InitWrite
    \/ FetchSource
    \/ \E w \in DOMAIN workers : WStart(w)
    \/ \E w \in DOMAIN workers : WConvert(w)
    \/ \E w \in DOMAIN workers : WAppendInf(w)
    \/ \E w \in DOMAIN workers : WAppendUrl(w)
    \/ \E w \in DOMAIN workers : WOpen(w)
    \/ \E w \in DOMAIN workers : WWrite(w)
    \/ \E w \in DOMAIN workers : Merge(w)
    \/ PoolExit
    \/ AbortExit
    \/ SaveOpen
    \/ SaveWrite
    \/ FinalOpen
    \/ FinalWrite
    \/ Crash
    \/ ManifestLost

Spec == Init /\ [][Next]_vars

\* ------------------------------------------- runs that nothing interrupts
\* The steps of main() after its start.
MainSteps ==
    \/ InitWrite
    \/ FetchSource
    \/ \E w \in DOMAIN workers : Merge(w)
    \/ PoolExit
    \/ AbortExit
    \/ SaveOpen
    \/ SaveWrite
    \/ FinalOpen
    \/ FinalWrite

\* The steps of process_video for the w-th work item of the pool.
ProcessVideo(w) ==
    /\ w \in DOMAIN workers
    /\ \/ WStart(w)
       \/ WConvert(w)
       \/ WAppendInf(w)
       \/ WAppendUrl(w)
       \/ WOpen(w)
       \/ WWrite(w)

\* No process is killed: every external call returns and every thread that
\* can take a step gets to take it.
NextLive ==
    \/ StartRun
    \/ InitWrite
    \/ FetchSource
    \/ \E w \in DOMAIN workers : WStart(w)
    \/ \E w \in DOMAIN workers : WConvert(w)
    \/ \E w \in DOMAIN workers : WAppendInf(w)
    \/ \E w \in DOMAIN workers : WAppendUrl(w)
    \/ \E w \in DOMAIN workers : WOpen(w)
    \/ \E w \in DOMAIN workers : WWrite(w)
    \/ \E w \in DOMAIN workers : Merge(w)
    \/ PoolExit
    \/ AbortExit
    \/ SaveOpen
    \/ SaveWrite
    \/ FinalOpen
    \/ FinalWrite
    \/ ManifestLost

SpecLive ==
    /\ Init
    /\ [][NextLive]_vars
    /\ WF_vars(MainSteps)
    /\ \A w \in 1..MaxEntries : WF_vars(ProcessVideo(w))

\* ======================================================== fetch_m3u_urls
\* A line of a playlist is <<prefix, text, logo>>: what it starts with, and
\* the parts the parser reads from it.
\*   <<"#EXTGRP:", label, "">>   a group directive "#EXTGRP:label"
\*   <<"#EXTGRP", "", "">>       "#EXTGRP" with no colon
\*   <<"#EXTINF,", title, logo>> "#EXTINF:-1 tvg-logo="logo",title" (logo ""
\*                               when the attribute is absent)
\*   <<"#EXTINF", "", logo>>     "#EXTINF..." with no comma
\*   <<"#", "", "">>             any other line starting with "#"
\*   <<"", "", "">>              a line that is empty after strip()
\*   <<"url", text, "">>         any other line
DEFAULT_LOGO == "https://via.placeholder.com/150"

PlaylistLines ==
    { <<"#EXTGRP:", "Action", "">>, <<"#EXTGRP:", "Drama", "">>,
      <<"#EXTINF,", "Cafe_acute", "logo.png">>, <<"#EXTINF,", "Heat", "">>,
      <<"#", "", "">>, <<"", "", "">>,
      <<"url", "a.mp4", "">>, <<"url", "b.MKV", "">>, <<"url", "c.avi", "">> }

\* lines[i].startswith('#')
StartsWithHash(line) ==
    line[1] \in {"#EXTGRP:", "#EXTGRP", "#EXTINF,", "#EXTINF", "#"}

\* lines[i].startswith('#EXTGRP')
IsExtGrp(line) == line[1] \in {"#EXTGRP:", "#EXTGRP"}

\* lines[i].startswith('#EXTINF')
IsExtInf(line) == line[1] \in {"#EXTINF,", "#EXTINF"}

\* lines[i].strip() is not empty
NonBlank(line) == line[1] # ""

\* SOURCE_GROUPS.get(m3u_url, "Unknown")
SourceGroup(source) ==
    CASE source = 1 -> "Hollywood"
      [] source = 2 -> "Worldwide"
      [] OTHER -> "Unknown"

\* unidecode(title): the ASCII transliteration; "Cafe_acute" stands for the
\* title whose last letter is U+00E9.
Unidecode(title) == IF title = "Cafe_acute" THEN "Cafe" ELSE title

\* f"Video_{n}"
VideoTitle(n) == <<"Video_1", "Video_2", "Video_3", "Video_4", "Video_5">>[n]

\* url.lower().endswith(('.mp4', '.mkv'))
Supported(url) == url \in {"a.mp4", "b.MKV"}

\* The tuple appended to urls for the entry-info line at index i and the
\* URL line after it; `at` records i and is no part of the tuple.
Entry(i, info, url, group, n) ==
    [url |-> url,
     title |-> Unidecode(IF info[1] = "#EXTINF," THEN info[2] ELSE VideoTitle(n + 1)),
     logo |-> IF info[3] # "" THEN info[3] ELSE DEFAULT_LOGO,
     group |-> group,
     at |-> i]

\* A loop that gives up at the first URL with an unsupported extension
\* (mutation of ParseFrom).
RECURSIVE ParseFrom_StopAtUnsupported(_, _, _, _)
ParseFrom_StopAtUnsupported(ls, i, group, found) ==
    IF i > Len(ls) THEN found
    ELSE IF IsExtGrp(ls[i])
    THEN ParseFrom_StopAtUnsupported(ls, i + 1,
                   IF ls[i][1] = "#EXTGRP:" THEN ls[i][2] ELSE group, found)
    ELSE IF IsExtInf(ls[i])
    THEN IF /\ i + 1 <= Len(ls)
            /\ NonBlank(ls[i + 1])
            /\ ~StartsWithHash(ls[i + 1])
         THEN IF ~Supported(ls[i + 1][2])
              THEN found
              ELSE ParseFrom_StopAtUnsupported(ls, i + 2, group,
                             Append(found, Entry(i, ls[i], ls[i + 1][2], group,
                                                 Len(found))))
         ELSE ParseFrom_StopAtUnsupported(ls, i + 2, group, found)
    ELSE ParseFrom_StopAtUnsupported(ls, i + 1, group, found)

\* The while loop of fetch_m3u_urls from index i (counted from 1) with the
\* current group and the entries found so far.
RECURSIVE ParseFrom(_, _, _, _)
ParseFrom(ls, i, group, found) ==
    IF i > Len(ls) THEN found
    ELSE IF IsExtGrp(ls[i])
    THEN ParseFrom(ls, i + 1,
                   IF ls[i][1] = "#EXTGRP:" THEN ls[i][2] ELSE group, found)
    ELSE IF IsExtInf(ls[i])
    THEN \* i += 1, then the test of the line after the entry-info line
         IF /\ i + 1 <= Len(ls)
            /\ NonBlank(ls[i + 1])
            /\ ~StartsWithHash(ls[i + 1])
         THEN IF ~Supported(ls[i + 1][2])
              THEN \* continue: the trailing i += 1 is not executed
                   ParseFrom(ls, i + 1, group, found)
              ELSE ParseFrom(ls, i + 2, group,
                             Append(found, Entry(i, ls[i], ls[i + 1][2], group,
                                                 Len(found))))
         ELSE \* the trailing i += 1 steps over the line just tested
              ParseFrom(ls, i + 2, group, found)
    ELSE ParseFrom(ls, i + 1, group, found)

\* fetch_m3u_urls of convert_to_hls.py, from the text on
fetch_m3u_urls(source, ls) ==
    Take(ParseFrom(ls, 1, SourceGroup(source), <<>>), MAX_VIDEOS_PER_SOURCE)

\* fetch_m3u_urls of VOD-generate_m3u.py, from the text on
fetch_m3u_urls_vod(source, ls) ==
    ParseFrom(ls, 1, SourceGroup(source), <<>>)

ParserInit ==
    /\ m3u_url \in 1..NumSources
    /\ lines \in SeqsUpTo(PlaylistLines, MaxLines)
    /\ urls = <<>>
    /\ parse_pc = "input"

\* convert_to_hls.py parses the text.
ParseHls ==
    /\ parse_pc = "input"
    /\ urls' = fetch_m3u_urls(m3u_url, lines)
    /\ parse_pc' = "hls"
    /\ UNCHANGED <<m3u_url, lines, outsideParser>>

\* VOD-generate_m3u.py parses the text.
ParseVod ==
    /\ parse_pc = "input"
    /\ urls' = fetch_m3u_urls_vod(m3u_url, lines)
    /\ parse_pc' = "vod"
    /\ UNCHANGED <<m3u_url, lines, outsideParser>>

NextParse ==
    \/ ParseHls
    \/ ParseVod

InitParse ==
    PipelineInit /\ ParserInit /\ CacheIdle /\ ServeIdle /\ FilterIdle

SpecParse == InitParse /\ [][NextParse]_vars

\* ======================================= stream_server.py: clean_cache
\* Folders directly under OUTPUT_DIR, and how many of them hold a subfolder
\* (convert_to_hls.py writes hls_output/source_<s>/video_<id>/ into the
\* same OUTPUT_DIR; stream() writes hls_output/<video_id>/).
MaxFolders == 3

MaxNested == 1

MAX_CACHE_SIZE_MB == 1000

\* MB of the files lying directly in one directory.
FolderSizes == {400, 600}

\* The directories of a tree whose folders are `tops`, those in `nested`
\* holding one subfolder.
TreePaths(tops, nested) ==
    {<<k>> : k \in tops} \cup {<<k, 0>> : k \in nested}

\* The trees below OUTPUT_DIR: every directory has its own modification
\* time and the MB of its files.
CacheTrees ==
    UNION {
      UNION {
        LET paths == TreePaths(tops, nested)
        IN { {[path |-> q, mtime |-> mt[q], mb |-> sz[q]] : q \in paths} :
               mt \in {f \in [paths -> 1..Cardinality(paths)] :
                         \A a, b \in paths : a # b => f[a] # f[b]},
               sz \in [paths -> FolderSizes] }
        : nested \in {n \in SUBSET tops : Cardinality(n) <= MaxNested} }
      : tops \in SUBSET (1..MaxFolders) }

\* path q is folder p or lies below it.
IsUnder(q, p) == Len(q) >= Len(p) /\ SubSeq(q, 1, Len(p)) = p

\* The first os.walk: total_size sums the files at every depth.
RECURSIVE TotalSize(_)
TotalSize(dirs) ==
    IF dirs = {} THEN 0
    ELSE LET d == CHOOSE x \in dirs : TRUE
         IN d.mb + TotalSize(dirs \ {d})

\* The first os.walk: folders collects the directories at every depth;
\* folders.sort(key=getmtime) puts them in ascending modification time.
RECURSIVE SortByMtime(_)
SortByMtime(dirs) ==
    IF dirs = {} THEN <<>>
    ELSE LET d == CHOOSE x \in dirs : \A y \in dirs : x.mtime <= y.mtime
         IN <<d.path>> \o SortByMtime(dirs \ {d})

\* The inner os.walk(folder, topdown=False) with os.remove and os.rmdir:
\* nothing of the folder is left.
RemoveTree(dirs, folder) == {d \in dirs : ~IsUnder(d.path, folder)}

\* for folder in folders[:len(folders)//2]: a folder that went with its
\* parent makes os.rmdir(folder) raise, which ends the function in its
\* except clause.
RECURSIVE DeleteFolders(_, _)
DeleteFolders(victims, dirs) ==
    IF victims = <<>> THEN [dirs |-> dirs, pc |-> "cleaned"]
    ELSE IF \A d \in dirs : d.path # Head(victims)
         THEN [dirs |-> dirs, pc |-> "error"]
         ELSE DeleteFolders(Tail(victims), RemoveTree(dirs, Head(victims)))

clean_cache(dirs) ==
    IF TotalSize(dirs) > MAX_CACHE_SIZE_MB
    THEN LET folders == SortByMtime(dirs)
         IN DeleteFolders(SubSeq(folders, 1, Len(folders) \div 2), dirs)
    ELSE [dirs |-> dirs, pc |-> "cleaned"]

CacheInit ==
    /\ cacheDirs \in CacheTrees
    /\ cacheAtStart = cacheDirs
    /\ cache_pc = "input"

CleanCache ==
    /\ cache_pc = "input"
    /\ cacheDirs' = clean_cache(cacheDirs).dirs
    /\ cache_pc' = clean_cache(cacheDirs).pc
    /\ UNCHANGED <<cacheAtStart, outsideCache>>

NextCache == CleanCache

InitCache ==
    PipelineInit /\ ParserIdle /\ CacheInit /\ ServeIdle /\ FilterIdle

SpecCache == InitCache /\ [][NextCache]_vars

\* ============================================ stream_server.py: stream
\* Asset ids of requests.
VIDEO_IDS == {"v1", "v2", "v3"}

\* What download_video and convert_to_hls can answer.
Environments == [download : BOOLEAN, transcode : BOOLEAN]

\* load_metadata: the keys of video_metadata.json ({} when it is missing or
\* unreadable).
load_metadata == metadata

\* A request arrives: any metadata, any manifests on disk, any asset id.
ServeInit ==
    /\ metadata \in SUBSET VIDEO_IDS
    /\ cached \in SUBSET VIDEO_IDS
    /\ request_id \in VIDEO_IDS
    /\ env \in Environments
    /\ serve_pc = "request"
    /\ response = "none"
    /\ steps = <<>>

\* if video_id not in metadata: return "Video not found", 404
StreamNotFound ==
    /\ serve_pc = "request"
    /\ request_id \notin load_metadata
    /\ response' = "404"
    /\ serve_pc' = "done"
    /\ UNCHANGED <<metadata, cached, request_id, steps, env, outsideServe>>

\* if os.path.exists(m3u8_file): return send_file(m3u8_file)
StreamHit ==
    /\ serve_pc = "request"
    /\ request_id \in load_metadata
    /\ request_id \in cached
    /\ response' = "manifest"
    /\ serve_pc' = "done"
    /\ UNCHANGED <<metadata, cached, request_id, steps, env, outsideServe>>

\* The manifest is not on disk: line 114 builds the name of the transient
\* file with time.time(), and the module never imports time, so the
\* statement raises NameError before the try block is entered. Nothing was
\* downloaded, transcoded or evicted, and Flask answers the unhandled
\* exception with 500.
StreamMiss ==
    /\ serve_pc = "request"
    /\ request_id \in load_metadata
    /\ request_id \notin cached
    /\ response' = "500"
    /\ serve_pc' = "done"
    /\ UNCHANGED <<metadata, cached, request_id, steps, env, outsideServe>>

\* The next request, with what the environment answers to it.
NextRequest ==
    /\ serve_pc = "done"
    /\ request_id' \in VIDEO_IDS
    /\ env' \in Environments
    /\ serve_pc' = "request"
    /\ response' = "none"
    /\ steps' = <<>>
    /\ UNCHANGED <<metadata, cached, outsideServe>>

NextServe ==
    \/ StreamNotFound
    \/ StreamHit
    \/ StreamMiss
    \/ NextRequest

InitServe ==
    PipelineInit /\ ParserIdle /\ CacheIdle /\ ServeInit /\ FilterIdle

SpecServe == InitServe /\ [][NextServe]_vars

\* ================================== convert_to_hls.py: filter of a source
\* Longest source document, in parsed entries.
MaxDocLen == 52

\* A document of n entries: the URLs are told apart by their position.
Document(n) == [i \in 1..n |-> i]

\* A ledger with a record for each of the URLs lo..hi.
LedgerOf(lo, hi) ==
    [i \in 1..(hi - lo + 1) |->
        [url |-> lo + i - 1, m3u8_file |-> <<1, lo + i - 1>>]]

\* The manifests the records of a ledger reference.
ManifestsOf(cv) == {cv[i].m3u8_file : i \in 1..Len(cv)}

\* A source document of any length, with any run of consecutive entries
\* already converted, their manifests on disk.
FilterInit ==
    /\ \E n \in 0..MaxDocLen :
         /\ doc_urls = Document(n)
         /\ \E lo \in 1..(n + 1) : \E hi \in (lo - 1)..n :
              doc_ledger = LedgerOf(lo, hi)
    /\ doc_new_urls = <<>>
    /\ filter_pc = "input"

\* video_urls = fetch_m3u_urls(source_url), then the filter loop and the cut.
FilterSource ==
    /\ filter_pc = "input"
    /\ doc_new_urls' = NewUrls(doc_urls, doc_ledger, ManifestsOf(doc_ledger))
    /\ filter_pc' = "filtered"
    /\ UNCHANGED <<doc_urls, doc_ledger, outsideFilter>>

NextFilter == FilterSource

InitFilter ==
    PipelineInit /\ ParserIdle /\ CacheIdle /\ ServeIdle /\ FilterInit

SpecFilter == InitFilter /\ [][NextFilter]_vars

\* ================================================================ claims
\* The results process_video has returned in this run: those main merged,
\* and those of the current pool it has not consumed yet.
RunResults ==
    Range(new_videos) \cup
    {Result(w) : w \in {v \in DOMAIN workers :
                          /\ PoolActive
                          /\ workers[v].pc = "done"
                          /\ workers[v].res = "ok"
                          /\ ~workers[v].merged}}

\* Number of positions of s holding x.
Count(s, x) == Cardinality({i \in 1..Len(s) : s[i] = x})

\* No work item exists for url, no result was returned for it, and the list
\* holds the one item carried over from the ledger.
NoWorkOn(url) ==
    /\ \A w \in DOMAIN workers : workers[w].url # url
    /\ \A i \in 1..Len(new_videos) : new_videos[i].url # url
    /\ Count(master_m3u_content, InfLine(url)) = 1

\* A step of a run keeps url's record, in memory and in the ledger file
\* whenever the file holds a ledger.
RecordKept(url) ==
    /\ pc' # "idle" =>
         /\ HasKey(converted_videos', url)
         /\ Info(converted_videos', url) = Info(converted_videos, url)
    /\ ledgerFile' # <<>> =>
         /\ HasKey(ledgerFile', url)
         /\ Info(ledgerFile', url) = Info(converted_videos, url)

\* C1 (idempotence): a URL that is terminal-success when a run starts is
\* never submitted to a worker in that run, so the run performs no
\* reachability check, download or transcode for it and assigns it no asset
\* id; the list gets no further item for it; and every step of the run
\* keeps its ledger record as it was.
C1_Idempotent ==
    [][ /\ pc' # "idle" => \A u \in terminalAtStart' : NoWorkOn(u)'
        /\ \A u \in terminalAtStart : RecordKept(u) ]_vars

\* A run that began with a terminal-success URL, met it in a source (main
\* logged the skip), converted another URL and saved the ledger.
C1_Witness ==
    /\ pc = "final_open"
    /\ \E u \in terminalAtStart : <<"skipped", u>> \in log
    /\ new_videos # <<>>

\* C2 (as claimed): any two results of one run carry different asset ids.
C2_DistinctIds ==
    \A r1, r2 \in RunResults : r1 # r2 => r1.video_id # r2.video_id

\* C3 (as claimed): the asset id a successful retry receives (the URL had a
\* ledger record when the run started) is held by no ledger record and by
\* no other result of the run.
C3_FreshIdOnRetry ==
    pc \in {"fetch", "pool", "aborting", "update"} =>
        \A r \in RunResults :
            HasKey(converted_videos, r.url) =>
                /\ \A i \in 1..Len(converted_videos) :
                       converted_videos[i].video_id # r.video_id
                /\ \A r2 \in RunResults \ {r} : r2.video_id # r.video_id

\* C4 (as claimed): every step leaves master.m3u as it was or holding the
\* complete new document (the rendering of the list), never anything else.
C4_AtomicCommit ==
    [][ \/ masterFile' = masterFile
        \/ /\ masterFile' # <<>>
           /\ masterFile' \in {master_m3u_content, master_m3u_content'} ]_vars

\* C5 (as claimed): at any point of a run after its first commit, master.m3u
\* holds the items carried over from the ledger and the items of every
\* success whose commit has returned.
C5_Published ==
    pc \in {"fetch", "pool", "update"} =>
        /\ Range(ExistingItems(converted_videos)) \subseteq Range(masterFile)
        /\ \A r \in RunResults :
              /\ InfLine(r.url) \in Range(masterFile)
              /\ r.github_m3u8_url \in Range(masterFile)

\* C6 (as claimed): when a run is interrupted, every URL it had converted
\* (its manifest is on disk) is terminal-success in the persisted ledger,
\* which is what the next run loads.
C6_SafeRerun ==
    [][ (pc \in {"fetch", "pool", "update"} /\ pc' = "idle") =>
            \A r \in RunResults :
                r.m3u8_file \in manifests =>
                    TerminalSuccess(ledgerFile', r.url, manifests') ]_vars

\* C7 (as claimed): no failure inside a worker aborts the run.
C7_NeverAborts == pc # "aborting"

\* C8 (as claimed): a first run whose last pool had two entries, one
\* converted and one whose download failed on every attempt, saves a ledger
\* with a terminal-success record for the first and a retryable record for
\* the second, and its playlist holds exactly one item.
C8_FailedRecorded ==
    \A w1, w2 \in DOMAIN workers :
        ( /\ pc = "final_open"
          /\ runs = 1
          /\ Len(workers) = 2
          /\ Len(new_videos) = 1
          /\ workers[w1].res = "ok"
          /\ workers[w2].res = "download_failed" ) =>
            /\ TerminalSuccess(ledgerFile, workers[w1].url, manifests)
            /\ HasKey(ledgerFile, workers[w2].url)
            /\ ~TerminalSuccess(ledgerFile, workers[w2].url, manifests)
            /\ Len(master_m3u_content) = 3

\* Lines that are neither blank nor directives and lie after index i.
UrlLinesAfter(i) ==
    {j \in (i + 1)..Len(lines) : NonBlank(lines[j]) /\ ~StartsWithHash(lines[j])}

\* The first of them.
NextUrlLine(i) ==
    CHOOSE j \in UrlLinesAfter(i) : \A k \in UrlLinesAfter(i) : j <= k

\* Labels of the group directives before index i, by index.
GroupLinesBefore(i) == {j \in 1..(i - 1) : lines[j][1] = "#EXTGRP:"}

\* The label in force at index i: that of the last group directive before
\* it, else the default of the source.
GroupInForce(i) ==
    IF GroupLinesBefore(i) = {} THEN SourceGroup(m3u_url)
    ELSE lines[CHOOSE j \in GroupLinesBefore(i) :
                   \A k \in GroupLinesBefore(i) : k <= j][2]

\* C9 (as claimed): every entry-info line followed, at any distance, by a
\* line that is neither blank nor a directive yields an entry with that
\* line as its URL when the URL has a supported extension, whatever blank or
\* directive lines lie between the two; and every entry the parser returns
\* has the URL so selected.
C9_NextUrlLine ==
    parse_pc # "input" =>
        /\ \A i \in 1..Len(lines) :
              ( /\ IsExtInf(lines[i])
                /\ UrlLinesAfter(i) # {}
                /\ Supported(lines[NextUrlLine(i)][2]) ) =>
                  \E e \in Range(urls) :
                      e.at = i /\ e.url = lines[NextUrlLine(i)][2]
        /\ \A e \in Range(urls) :
              /\ UrlLinesAfter(e.at) # {}
              /\ e.url = lines[NextUrlLine(e.at)][2]

\* C10 (as claimed): every entry the parser returns carries the label of
\* the last group directive before its entry-info line, or the default of
\* the source when there is none.
C10_GroupCarry ==
    parse_pc # "input" =>
        \A e \in Range(urls) : e.group = GroupInForce(e.at)

\* A line that is neither blank nor a directive.
IsUrlLine(line) == NonBlank(line) /\ ~StartsWithHash(line)

\* Entry-info lines immediately followed by a URL line.
WellFormedAt(i) ==
    /\ i + 1 <= Len(lines)
    /\ IsExtInf(lines[i])
    /\ IsUrlLine(lines[i + 1])

\* Entry-info lines immediately followed by a URL with another extension
\* than .mp4 or .mkv.
UnsupportedAt(i) == WellFormedAt(i) /\ ~Supported(lines[i + 1][2])

\* Every entry-info line of the document is immediately followed by its URL.
AllWellFormed ==
    \A i \in 1..Len(lines) : IsExtInf(lines[i]) => WellFormedAt(i)

\* The group labels a parse can be in.
GroupLabels == {SourceGroup(m3u_url), "Action", "Drama"}

RootFolders(dirs) == {d \in dirs : Len(d.path) = 1}

\* The n members of S with the oldest modification times.
Oldest(S, n) == {d \in S : Cardinality({e \in S : e.mtime < d.mtime}) < n}

\* C12 (as claimed): with N folders under the cache root and a footprint
\* above the budget, clean_cache removes the floor(N/2) oldest of them with
\* all they hold and leaves every other directory and its files as they
\* were; with a footprint within the budget it removes nothing.
C12_EvictOlderHalf ==
    cache_pc \in {"cleaned", "error"} =>
        LET roots == RootFolders(cacheAtStart)
            victims == Oldest(roots, Cardinality(roots) \div 2)
        IN IF TotalSize(cacheAtStart) > MAX_CACHE_SIZE_MB
           THEN cacheDirs =
                  {d \in cacheAtStart :
                     \A v \in victims : ~IsUnder(d.path, v.path)}
           ELSE cacheDirs = cacheAtStart

\* Number of positions of `steps` holding operation x.
Attempts(x) == Count(steps, x)

\* C13 (as claimed): a request for a known asset whose manifest is not on
\* disk, with the download and the transcode succeeding, is answered with
\* the new manifest after download, transcode and eviction in that order;
\* a request whose manifest is on disk is answered with it and performs
\* none of the three.
C13_MissThenServe ==
    (serve_pc = "done" /\ request_id \in metadata) =>
        /\ (response = "manifest" /\ steps = <<>>) =>
              request_id \in cached
        /\ (env.download /\ env.transcode) =>
              /\ response = "manifest"
              /\ steps \in {<<>>, <<"download", "transcode", "evict">>}
              /\ request_id \in cached

\* C14 (as claimed): a request for an unknown asset ends in 404 with no
\* operation performed; a request for a known asset without manifest whose
\* download or transcode fails ends in 500 after exactly one download
\* attempt and at most one transcode attempt.
C14_ErrorOutcomes ==
    serve_pc = "done" =>
        /\ request_id \notin metadata =>
              response = "404" /\ steps = <<>>
        /\ ( /\ request_id \in metadata
             /\ request_id \notin cached
             /\ ~(env.download /\ env.transcode) ) =>
              /\ response = "500"
              /\ Attempts("download") = 1
              /\ Attempts("transcode") <= 1
              /\ Attempts("evict") = 0

\* The URLs main loaded from the ledger: the keys of its dict that no
\* result of this run brought in.
LoadedKeys ==
    {u \in URLS : /\ HasKey(converted_videos, u)
                  /\ \A i \in 1..Len(new_videos) : new_videos[i].url # u}

\* C15 (as claimed): over any sequence of runs the key set of the ledger
\* only grows: whenever a run ends, the ledger file holds every key the run
\* loaded from it.
C15_NeverPruned ==
    [][ (pc # "idle" /\ pc' = "idle") =>
            \A u \in LoadedKeys : HasKey(ledgerFile', u) ]_vars

\* The items of the run: the metadata line and the URL line of every
\* ledger record, of every merged result and of every work item of the
\* running pool.
ItemPairs ==
    {<<InfLine(r.url), r.github_m3u8_url>> :
        r \in Range(converted_videos) \cup Range(new_videos)}
    \cup
    {<<InfLine(workers[w].url),
       GithubUrl(OutputManifest(src, workers[w].video_id))>> :
        w \in {v \in DOMAIN workers : PoolActive}}

\* The header line followed by complete items.
WellFormedDoc(doc) ==
    /\ Len(doc) >= 1
    /\ doc[1] = HeaderLine
    /\ Len(doc) % 2 = 1
    /\ \A k \in 1..((Len(doc) - 1) \div 2) :
          <<doc[2 * k], doc[2 * k + 1]>> \in ItemPairs

\* C16 (as claimed): whenever a commit of the run has completed (master.m3u
\* holds a document), the document is the header line followed by complete
\* items, each a metadata line immediately followed by the URL line of the
\* same asset, for every interleaving of the workers.
C16_WellFormedSnapshots ==
    (pc # "idle" /\ masterFile # <<>>) => WellFormedDoc(masterFile)

\* The step is one of process_video running in the pool: a work item
\* changes its position.
WorkerStep ==
    /\ PoolActive
    /\ DOMAIN workers' = DOMAIN workers
    /\ \E w \in DOMAIN workers : workers'[w].pc # workers[w].pc

\* C17 (as claimed): no step of a worker changes the list, the ledger
\* mapping, the ledger file or master.m3u.
C17_SingleWriter ==
    [][ WorkerStep =>
            /\ master_m3u_content' = master_m3u_content
            /\ masterFile' = masterFile
            /\ converted_videos' = converted_videos
            /\ ledgerFile' = ledgerFile ]_vars

\* C18 (as claimed): two workers in flight at the same time for different
\* URLs have different output folders, and a worker that has downloaded its
\* transient file still finds it when it starts the transcode (no other
\* worker uses the path and removes the file in its cleanup).
C18_NoSharedFiles ==
    PoolActive =>
        /\ \A w1, w2 \in DOMAIN workers :
              ( /\ w1 # w2
                /\ InFlight(w1)
                /\ InFlight(w2)
                /\ workers[w1].url # workers[w2].url ) =>
                  OutputManifest(src, workers[w1].video_id)
                      # OutputManifest(src, workers[w2].video_id)
        /\ \A w \in DOMAIN workers :
              workers[w].pc = "convert" => TempFile(src) \in tempFiles

\* The entries of the document whose URL is not terminal-success, in
\* document order.
Unconverted ==
    SelectSeq(doc_urls,
              LAMBDA u : ~TerminalSuccess(doc_ledger, u, ManifestsOf(doc_ledger)))

\* C19 (as claimed): the entries dispatched for a source are the first
\* min(M, k) of its k entries that are not terminal-success, in document
\* order, however many converted entries precede them.
C19_FilterBeforeCap ==
    filter_pc = "filtered" =>
        doc_new_urls = Take(Unconverted, MAX_VIDEOS_PER_SOURCE)

\* The run ends in this step having saved the ledger and published a final
\* playlist with the items of every asset it converted.
EndsSavedAndPublished ==
    /\ pc = "final_write"
    /\ ledgerFile = converted_videos
    /\ masterFile' = master_m3u_content
    /\ \A r \in Range(new_videos) :
          /\ HasKey(ledgerFile, r.url)
          /\ InfLine(r.url) \in Range(masterFile')
          /\ r.github_m3u8_url \in Range(masterFile')

\* C20 (as claimed): with fair scheduling and every external call
\* returning, every run terminates, and it ends having saved the ledger and
\* published a final playlist that holds every asset converted in the run.
C20_Terminates ==
    /\ (pc # "idle") ~> (pc = "idle")
    /\ [][ (pc # "idle" /\ pc' = "idle") => EndsSavedAndPublished ]_vars

\* The items a playlist document holds for a source URL.
ItemsOf(doc, url) == Count(doc, InfLine(url))

\* C21 (as claimed): in every playlist published during or at the end of a
\* run, each source URL contributes at most one item.
C21_NoDuplicateItems ==
    \A url \in URLS : ItemsOf(masterFile, url) <= 1

\* The request misses and its fill can succeed: the asset is known, its
\* manifest is not on disk, and the download and the transcode both work.
MissFill ==
    /\ serve_pc = "request"
    /\ request_id \in metadata
    /\ request_id \notin cached
    /\ env.download
    /\ env.transcode

====
